---- MODULE Spec2Model ----
(***************************************************************************)
(* Crop disease prediction: the inference pipeline (class registry, model  *)
(* loader, preprocessor, prediction service, Predictor facade) and the     *)
(* Streamlit application that drives it inside one user session.           *)
(***************************************************************************)
EXTENDS Integers, Sequences, FiniteSets, TLC

\* ------------------------------------------------------------------------
\* Bounds of the model
\* ------------------------------------------------------------------------
MaxClasses == 3
MaxBatch == 3
MaxFiles == 2
LoadCountCap == 2

\* ------------------------------------------------------------------------
\* Program constants
\* ------------------------------------------------------------------------
\* resnet18 conv1 has 64 output channels (torchvision), fixed by the topology
BackboneWidth == 64
\* probabilities are fixed-point numbers, 1.0 = ProbScale
ProbScale == 100000
\* 'confidence.item() * 100' and 'probabilities[0][i].item() * 100'
PercentFactor == 100

\* ------------------------------------------------------------------------
\* Generic helpers
\* ------------------------------------------------------------------------
Range(s) == {s[i] : i \in DOMAIN s}

SeqsUpTo(S, n) == UNION {[1..k -> S] : k \in 0..n}

EmptyDict == [k \in {} |-> 0]

\* d[k] = v of a Python dict: a new key is added, an existing key overwritten
DictPut(d, k, v) == [x \in (DOMAIN d) \cup {k} |-> IF x = k THEN v ELSE d[x]]

RECURSIVE SumSeq(_)
SumSeq(s) == IF s = <<>> THEN 0 ELSE s[1] + SumSeq(Tail(s))

\* ------------------------------------------------------------------------
\* The class configuration resource and the class registry
\* ------------------------------------------------------------------------
Labels == {"Bacterialblight", "Blast", "Brownspot", ""}

ClassLists == SeqsUpTo(Labels, MaxClasses)

\* the file config/class_names.json as the registry finds it
ConfigResources ==
    {[exists |-> FALSE, json |-> "ok", classes |-> <<>>]} \cup
    {[exists |-> TRUE, json |-> j, classes |-> <<>>] : j \in {"bad_json", "no_classes_key"}} \cup
    {[exists |-> TRUE, json |-> "ok", classes |-> c] : c \in ClassLists}

\* JSONClassNameProvider.__init__ / _load_classes
LoadClasses(cfg) ==
    IF ~cfg.exists THEN [ok |-> FALSE, err |-> "FileNotFoundError", classes |-> <<>>]
    ELSE IF cfg.json = "bad_json" THEN [ok |-> FALSE, err |-> "JSONDecodeError", classes |-> <<>>]
    ELSE IF cfg.json = "no_classes_key" THEN [ok |-> FALSE, err |-> "KeyError", classes |-> <<>>]
    ELSE [ok |-> TRUE, err |-> "", classes |-> cfg.classes]

\* JSONClassNameProvider.get_class_count
GetClassCount(classes) == Len(classes)

\* ------------------------------------------------------------------------
\* Checkpoints and the model loader
\* ------------------------------------------------------------------------
\* parameter values are identified by a number: 0 is the random
\* initialisation, 1 and 2 are two trained parameter sets
Tensor(shape, data) == [shape |-> shape, data |-> data]

\* state_dict of resnet18 whose fc is Sequential(Dropout, Linear(num_ftrs, n))
StateDict(n, w) ==
    ("conv1.weight" :> Tensor(BackboneWidth, w)) @@ ("fc.1.weight" :> Tensor(n, w))

\* state_dict of a stock resnet18 (fc is a bare Linear): another topology
PlainStateDict(n, w) ==
    ("conv1.weight" :> Tensor(BackboneWidth, w)) @@ ("fc.weight" :> Tensor(n, w))

\* the record train_model saves with torch.save when validation improves
TrainCheckpoint(n, w) ==
    ("epoch" :> 1) @@ ("model_state_dict" :> StateDict(n, w)) @@
    ("optimizer_state_dict" :> 0) @@ ("val_acc" :> 1) @@ ("val_loss" :> 1) @@
    ("classes" :> n) @@ ("num_classes" :> n) @@ ("config" :> 0)

\* a record that wraps the parameters under a key the loader does not know
ForeignCheckpoint(n, w) == ("epoch" :> 1) @@ ("state_dict" :> StateDict(n, w))

CheckpointContents ==
    {TrainCheckpoint(n, 1) : n \in 1..MaxClasses} \cup
    {StateDict(n, 2) : n \in 1..MaxClasses} \cup
    {ForeignCheckpoint(1, 1), PlainStateDict(1, 1)}

\* the file models/best_model.pth as the loader finds it
CheckpointFiles ==
    {[exists |-> FALSE, content |-> EmptyDict]} \cup
    {[exists |-> TRUE, content |-> c] : c \in CheckpointContents}

\* PyTorchModelLoader.__init__: torch.device('cuda' if available else 'cpu')
ResolveDevice(cuda) == IF cuda THEN "cuda" ELSE "cpu"

\* models.resnet18(weights=None) with the replaced head; a fresh module is
\* in training mode
NewResnet18(num_classes) ==
    [state |-> StateDict(num_classes, 0), training |-> TRUE, device |-> "cpu"]

\* a load_state_dict that would not compare the shapes
LoadStateDictNoShapeCheck(model, sd) ==
    IF DOMAIN sd # DOMAIN model.state
    THEN [ok |-> FALSE, err |-> "RuntimeError", model |-> model]
    ELSE [ok |-> TRUE, err |-> "", model |-> [model EXCEPT !.state = sd]]

\* model.load_state_dict(sd), strict: same keys, same shapes
LoadStateDict(model, sd) ==
    IF DOMAIN sd # DOMAIN model.state
    THEN [ok |-> FALSE, err |-> "RuntimeError", model |-> model]
    ELSE IF \E k \in DOMAIN sd : sd[k].shape # model.state[k].shape
    THEN [ok |-> FALSE, err |-> "RuntimeError", model |-> model]
    ELSE [ok |-> TRUE, err |-> "", model |-> [model EXCEPT !.state = sd]]

\* a loader that would always take the checkpoint itself as the mapping
ExtractStateDictRawOnly(checkpoint) == checkpoint

\* the parameter mapping load_model hands to load_state_dict
ExtractStateDict(checkpoint) ==
    IF "model_state_dict" \in DOMAIN checkpoint
    THEN checkpoint["model_state_dict"]
    ELSE checkpoint

\* a loader that would forget model.eval()
ToDeviceNoEval(model, device) == [model EXCEPT !.device = device]

\* model.to(device); model.eval()
ToDeviceEval(model, device) == [model EXCEPT !.device = device, !.training = FALSE]

\* PyTorchModelLoader.load_model
LoadModel(file, num_classes, device) ==
    LET model == NewResnet18(num_classes) IN
    IF ~file.exists
    THEN [ok |-> FALSE, err |-> "FileNotFoundError", model |-> model]
    ELSE LET loaded == LoadStateDict(model, ExtractStateDict(file.content)) IN
         IF ~loaded.ok THEN loaded
         ELSE [ok |-> TRUE, err |-> "", model |-> ToDeviceEval(loaded.model, device)]

\* ------------------------------------------------------------------------
\* Images and the preprocessor
\* ------------------------------------------------------------------------
\* an input handed to predict: kind is how it is supplied, decodable whether
\* PIL can open it, px the picture it holds
Image(kind, decodable, mode, px) ==
    [kind |-> kind, decodable |-> decodable, mode |-> mode, px |-> px]

Images ==
    {Image("path", TRUE, "RGB", 0), Image("pil", TRUE, "RGB", 1),
     Image("stream", FALSE, "RGB", 0)}

NoImage == Image("none", FALSE, "RGB", 0)

\* the colour modes of the pictures: RGB, greyscale, RGB with alpha
Modes == {"RGB", "L", "RGBA"}

\* what a caller may pass as an image: a path, a file-like byte stream, a
\* bytes value, each holding a picture or not, a PIL image of any mode, and
\* a value of another type
Inputs ==
    {Image(k, TRUE, m, x) : k \in {"path", "stream", "bytes", "pil"}, m \in Modes, x \in 0..1}
        \cup {Image(k, FALSE, "RGB", 0) : k \in {"path", "stream", "bytes", "other"}}

\* an Image.open that returns a blank picture for what it cannot decode
OpenConvertRGBLenient(image) ==
    [ok |-> TRUE, err |-> "", image |-> Image("pil", TRUE, "RGB", image.px)]

\* Image.open(x).convert('RGB')
OpenConvertRGB(image) ==
    IF ~image.decodable
    THEN [ok |-> FALSE, err |-> "UnidentifiedImageError", image |-> image]
    ELSE [ok |-> TRUE, err |-> "", image |-> Image("pil", TRUE, "RGB", image.px)]

\* ImageTransformer.transform: resize, to tensor, normalise; the tensor is
\* identified by the picture it was computed from
Transform(image) ==
    IF image.kind # "pil"
    THEN [ok |-> FALSE, err |-> "TypeError", tensor |-> 0]
    ELSE [ok |-> TRUE, err |-> "", tensor |-> image.px]

\* a preprocessor that opens paths only
DecodeInputPathOnly(image) ==
    IF image.kind # "pil" /\ image.kind = "path"
    THEN OpenConvertRGB(image)
    ELSE [ok |-> TRUE, err |-> "", image |-> image]

\* ImagePreprocessor.preprocess, its isinstance / hasattr tests: a str or
\* Path and an object with a read method are opened, anything else is kept
DecodeInput(image) ==
    IF image.kind # "pil" /\ image.kind \in {"path", "stream"}
    THEN OpenConvertRGB(image)
    ELSE [ok |-> TRUE, err |-> "", image |-> image]

\* ImagePreprocessor.preprocess; handed is what it passes to the transformer
Preprocess(image) ==
    LET opened == DecodeInput(image) IN
    IF ~opened.ok
    THEN [ok |-> FALSE, err |-> opened.err, tensor |-> 0, handed |-> NoImage]
    ELSE LET t == Transform(opened.image) IN
         [ok |-> t.ok, err |-> t.err, tensor |-> t.tensor, handed |-> opened.image]

\* ------------------------------------------------------------------------
\* The prediction service
\* ------------------------------------------------------------------------
\* the network's raw outputs take LogitLevels values
LogitLevels == 3

\* the dropout masks a forward pass in training mode may draw
Masks == {0, 1}

\* the masks n forward passes draw: Dropout is the identity in eval mode
MaskChoices(model, n) ==
    IF model.training THEN [1..n -> Masks] ELSE {[i \in 1..n |-> 0]}

\* self.model(image_tensor): one logit per output channel of the head; eval
\* mode ignores the dropout mask
Forward(model, tensor, mask) ==
    LET head == model.state["fc.1.weight"] IN
    [i \in 1..head.shape |->
        ((tensor + 1) * (i + head.data) + (IF model.training THEN mask * i ELSE 0))
            % LogitLevels]

\* exp(x), fixed point with three decimals
ExpFixed(x) == CASE x = 0 -> 1000 [] x = 1 -> 2718 [] x = 2 -> 7389

\* torch.nn.functional.softmax(outputs, dim=1)
Softmax(outputs) ==
    LET total == SumSeq([j \in DOMAIN outputs |-> ExpFixed(outputs[j])]) IN
    [i \in DOMAIN outputs |-> (ExpFixed(outputs[i]) * ProbScale) \div total]

\* torch.max(probabilities, 1): the index of the first maximal value
ArgMaxFirst(probs) ==
    CHOOSE i \in DOMAIN probs :
        /\ \A j \in DOMAIN probs : probs[j] <= probs[i]
        /\ \A j \in DOMAIN probs : j < i => probs[j] < probs[i]

\* the loop 'for i, class_name in enumerate(classes): all_probs[class_name] = ...'
\* after its first i iterations
RECURSIVE BuildAllProbs(_, _, _)
BuildAllProbs(classes, probs, i) ==
    IF i = 0 THEN EmptyDict
    ELSE DictPut(BuildAllProbs(classes, probs, i - 1), classes[i],
                 probs[i] * PercentFactor)

PredictionResult(predicted_class, confidence, all_probabilities) ==
    [predicted_class |-> predicted_class, confidence |-> confidence,
     all_probabilities |-> all_probabilities]

NoResult == PredictionResult("", 0, EmptyDict)

\* an exception leaves predict after the model was called forwards times
Raised(err, forwards) ==
    [ok |-> FALSE, err |-> err, value |-> NoResult, forwards |-> forwards]

\* PredictionService.predict on the service's model and class provider
Predict(svc, image, mask) ==
    LET pre == Preprocess(image) IN
    IF ~pre.ok THEN Raised(pre.err, 0)
    ELSE
    LET outputs == Forward(svc.model, pre.tensor, mask)
        probabilities == Softmax(outputs)
        classes == svc.classes
    IN  IF Len(probabilities) = 0 THEN Raised("IndexError", 1)
        ELSE
        LET predicted == ArgMaxFirst(probabilities) IN
        IF predicted > Len(classes) \/ Len(classes) > Len(probabilities)
        THEN Raised("IndexError", 1)
        ELSE [ok |-> TRUE, err |-> "", forwards |-> 1,
              value |-> PredictionResult(classes[predicted],
                                         probabilities[predicted] * PercentFactor,
                                         BuildAllProbs(classes, probabilities, Len(classes)))]

\* a comprehension that would put each new result in front of the list
ComprehensionStepPrepend(built, r) ==
    IF r.ok
    THEN [running |-> TRUE, ok |-> TRUE, err |-> "", built |-> <<r.value>> \o built]
    ELSE [running |-> FALSE, ok |-> FALSE, err |-> r.err, built |-> <<>>]

\* a comprehension that would skip a failing image and go on
ComprehensionStepSwallow(built, r) ==
    IF r.ok
    THEN [running |-> TRUE, ok |-> TRUE, err |-> "", built |-> Append(built, r.value)]
    ELSE [running |-> TRUE, ok |-> TRUE, err |-> "", built |-> built]

\* one iteration of the list comprehension of predict_batch, given the list
\* built so far and the outcome r of predict on the next image: the result
\* is appended; an exception leaves the comprehension and predict_batch, and
\* the list built so far is dropped
ComprehensionStep(built, r) ==
    IF r.ok
    THEN [running |-> TRUE, ok |-> TRUE, err |-> "", built |-> Append(built, r.value)]
    ELSE [running |-> FALSE, ok |-> FALSE, err |-> r.err, built |-> <<>>]

\* ------------------------------------------------------------------------
\* The Predictor facade
\* ------------------------------------------------------------------------
PredictorObject(classes, model, device) ==
    [exists |-> TRUE, classes |-> classes, model |-> model, device |-> device]

NoPredictor ==
    [exists |-> FALSE, classes |-> <<>>, model |-> NewResnet18(0), device |-> "cpu"]

\* Predictor.__init__: class provider, model loader, load_model, service
PredictorInit(cfg, file, cuda) ==
    LET provider == LoadClasses(cfg) IN
    IF ~provider.ok
    THEN [ok |-> FALSE, err |-> provider.err, predictor |-> NoPredictor]
    ELSE LET device == ResolveDevice(cuda)
             loaded == LoadModel(file, GetClassCount(provider.classes), device)
         IN IF ~loaded.ok
            THEN [ok |-> FALSE, err |-> loaded.err, predictor |-> NoPredictor]
            ELSE [ok |-> TRUE, err |-> "",
                  predictor |-> PredictorObject(provider.classes, loaded.model, device)]

\* ------------------------------------------------------------------------
\* The disease remedies
\* ------------------------------------------------------------------------
Remedy(disease_name, severity_level) ==
    [disease_name |-> disease_name, severity_level |-> severity_level]

\* get_remedy found nothing
NoRemedy == Remedy("None", "None")

\* DiseaseRemedyService._load_remedies: the dict, in insertion order
LoadRemedies ==
    <<[key |-> "Bacterialblight", remedy |-> Remedy("Bacterial Blight", "High")],
      [key |-> "Blast", remedy |-> Remedy("Rice Blast", "Very High")],
      [key |-> "Brownspot", remedy |-> Remedy("Brown Spot", "Medium")]>>

\* a lookup by the remedy's display name
GetRemedyByDisplayName(disease_name) ==
    LET hits == {i \in DOMAIN LoadRemedies :
                    LoadRemedies[i].remedy.disease_name = disease_name} IN
    IF hits = {} THEN NoRemedy ELSE LoadRemedies[CHOOSE i \in hits : TRUE].remedy

\* DiseaseRemedyService.get_remedy: self._remedies.get(disease_name)
GetRemedy(disease_name) ==
    LET hits == {i \in DOMAIN LoadRemedies : LoadRemedies[i].key = disease_name} IN
    IF hits = {} THEN NoRemedy ELSE LoadRemedies[CHOOSE i \in hits : TRUE].remedy

\* DiseaseRemedyService.get_all_diseases: list(self._remedies.keys())
GetAllDiseases == [i \in DOMAIN LoadRemedies |-> LoadRemedies[i].key]

\* the names callers ask a remedy for
RemedyNames ==
    {"Bacterialblight", "Blast", "Brownspot", "NonExistentDisease",
     "Bacterial Blight", "blast", ""}

\* ------------------------------------------------------------------------
\* The support bot: texts are sequences of characters
\* ------------------------------------------------------------------------
\* str.lower on one character
LowerChar(c) ==
    CASE c = "A" -> "a"
        [] c = "B" -> "b"
        [] c = "C" -> "c"
        [] c = "D" -> "d"
        [] c = "E" -> "e"
        [] c = "F" -> "f"
        [] c = "G" -> "g"
        [] c = "H" -> "h"
        [] c = "I" -> "i"
        [] c = "J" -> "j"
        [] c = "K" -> "k"
        [] c = "L" -> "l"
        [] c = "M" -> "m"
        [] c = "N" -> "n"
        [] c = "O" -> "o"
        [] c = "P" -> "p"
        [] c = "Q" -> "q"
        [] c = "R" -> "r"
        [] c = "S" -> "s"
        [] c = "T" -> "t"
        [] c = "U" -> "u"
        [] c = "V" -> "v"
        [] c = "W" -> "w"
        [] c = "X" -> "x"
        [] c = "Y" -> "y"
        [] c = "Z" -> "z"
        [] OTHER -> c

\* str.lower
Lower(text) == [i \in DOMAIN text |-> LowerChar(text[i])]

\* the test  sub in text  on two strings
Contains(sub, text) ==
    \E i \in 0..(Len(text) - Len(sub)) : SubSeq(text, i + 1, i + Len(sub)) = sub

\* any(kw in text for kw in keywords)
AnyIn(keywords, text) == \E k \in DOMAIN keywords : Contains(keywords[k], text)

cure_keywords ==
    <<<<"c", "u", "r", "e">>,
      <<"t", "r", "e", "a", "t">>,
      <<"r", "e", "m", "e", "d", "y">>,
      <<"f", "i", "x">>,
      <<"h", "e", "a", "l">>,
      <<"h", "o", "w", " ", "t", "o", " ", "c", "u", "r", "e">>,
      <<"t", "r", "e", "a", "t", "m", "e", "n", "t", " ", "f", "o", "r">>>>

\* the dict disease_map, in insertion order
disease_map ==
    <<[key |-> <<"b", "a", "c", "t", "e", "r", "i", "a", "l", " ", "b", "l", "i", "g", "h", "t">>, name |-> "Bacterialblight"],
      [key |-> <<"b", "a", "c", "t", "e", "r", "i", "a", "l", "b", "l", "i", "g", "h", "t">>, name |-> "Bacterialblight"],
      [key |-> <<"b", "l", "i", "g", "h", "t">>, name |-> "Bacterialblight"],
      [key |-> <<"b", "l", "a", "s", "t">>, name |-> "Blast"],
      [key |-> <<"b", "r", "o", "w", "n", " ", "s", "p", "o", "t">>, name |-> "Brownspot"],
      [key |-> <<"b", "r", "o", "w", "n", "s", "p", "o", "t">>, name |-> "Brownspot"]>>

greetings ==
    <<<<"h", "i">>,
      <<"h", "e", "l", "l", "o">>,
      <<"h", "e", "y">>,
      <<"g", "o", "o", "d", " ", "m", "o", "r", "n", "i", "n", "g">>,
      <<"g", "o", "o", "d", " ", "a", "f", "t", "e", "r", "n", "o", "o", "n">>,
      <<"g", "o", "o", "d", " ", "e", "v", "e", "n", "i", "n", "g">>,
      <<"h", "i", "i">>,
      <<"h", "i", "i", "i">>>>

thanks ==
    <<<<"t", "h", "a", "n", "k">>,
      <<"t", "h", "a", "n", "k", "s">>,
      <<"t", "h", "x">>,
      <<"a", "p", "p", "r", "e", "c", "i", "a", "t", "e">>>>

\* the dict app_keywords, in insertion order
app_keywords ==
    <<[key |-> "how to use",
       keywords |-> <<<<"h", "o", "w", " ", "t", "o", " ", "u", "s", "e">>,
         <<"h", "o", "w", " ", "d", "o", " ", "i", " ", "u", "s", "e">>,
         <<"u", "s", "a", "g", "e">>,
         <<"g", "u", "i", "d", "e">>,
         <<"t", "u", "t", "o", "r", "i", "a", "l">>,
         <<"h", "e", "l", "p", " ", "m", "e", " ", "u", "s", "e">>>>],
      [key |-> "good image",
       keywords |-> <<<<"g", "o", "o", "d", " ", "i", "m", "a", "g", "e">>,
         <<"p", "h", "o", "t", "o", " ", "t", "i", "p">>,
         <<"c", "a", "p", "t", "u", "r", "e">>,
         <<"t", "a", "k", "e", " ", "p", "h", "o", "t", "o">>,
         <<"i", "m", "a", "g", "e", " ", "q", "u", "a", "l", "i", "t", "y">>,
         <<"p", "i", "c", "t", "u", "r", "e">>>>],
      [key |-> "supported diseases",
       keywords |-> <<<<"w", "h", "a", "t", " ", "d", "i", "s", "e", "a", "s", "e">>,
         <<"w", "h", "i", "c", "h", " ", "d", "i", "s", "e", "a", "s", "e">>,
         <<"s", "u", "p", "p", "o", "r", "t", "e", "d">>,
         <<"d", "e", "t", "e", "c", "t">>,
         <<"i", "d", "e", "n", "t", "i", "f", "y">>,
         <<"l", "i", "s", "t", " ", "o", "f", " ", "d", "i", "s", "e", "a", "s", "e">>>>],
      [key |-> "about project",
       keywords |-> <<<<"a", "b", "o", "u", "t">>,
         <<"w", "h", "a", "t", " ", "i", "s", " ", "t", "h", "i", "s">>,
         <<"p", "r", "o", "j", "e", "c", "t">>,
         <<"a", "p", "p", "l", "i", "c", "a", "t", "i", "o", "n">>,
         <<"a", "p", "p">>,
         <<"s", "y", "s", "t", "e", "m">>>>]>>

\* what find_best_response returns: the kind of answer and its subject
Response(kind, subject) == [kind |-> kind, subject |-> subject]

NoResponse == Response("none", "")

\* get_detailed_cure_response: None when the disease has no remedy
GetDetailedCureResponse(disease_name) ==
    IF GetRemedy(disease_name) = NoRemedy THEN NoResponse
    ELSE Response("cure_guide", disease_name)

\* the first index of a non-empty set of positions: the loop returns at it
First(hits) == CHOOSE i \in hits : \A j \in hits : i <= j

\* find_best_response after the cure, greeting and thanks tests: the loop
\* over app_keywords, then the disease knowledge base and the later tests
AppHelpOrLater(lower) ==
    LET hits == {i \in DOMAIN app_keywords : AnyIn(app_keywords[i].keywords, lower)} IN
    IF hits # {} THEN Response("APP_KNOWLEDGE", app_keywords[First(hits)].key)
    ELSE Response("knowledge base or later", "")

\* find_best_response
FindBestResponse(user_input) ==
    LET lower == Lower(user_input) IN
    IF AnyIn(cure_keywords, lower)
    THEN LET hits == {i \in DOMAIN disease_map :
                         /\ Contains(disease_map[i].key, lower)
                         /\ GetDetailedCureResponse(disease_map[i].name) # NoResponse} IN
         IF hits # {} THEN GetDetailedCureResponse(disease_map[First(hits)].name)
         ELSE Response("cure_overview", "")
    ELSE IF AnyIn(greetings, lower) THEN Response("greeting", "")
    ELSE IF AnyIn(thanks, lower) THEN Response("thanks", "")
    ELSE AppHelpOrLater(lower)

\* what users type: the questions the bot suggests, and some more
UserInputs ==
    {<<"H", "o", "w", " ", "t", "o", " ", "u", "s", "e">>,
     <<"H", "o", "w", " ", "t", "o", " ", "u", "s", "e", " ", "t", "h", "i", "s", " ", "a", "p", "p", "?">>,
     <<"h", "o", "w", " ", "t", "o", " ", "u", "s", "e">>,
     <<"H", "O", "W", " ", "T", "O", " ", "U", "S", "E", " ", "I", "T">>,
     <<"I", "m", "a", "g", "e", " ", "t", "i", "p", "s">>,
     <<"S", "u", "p", "p", "o", "r", "t", "e", "d", " ", "d", "i", "s", "e", "a", "s", "e", "s">>,
     <<"W", "h", "a", "t", " ", "i", "s", " ", "B", "a", "c", "t", "e", "r", "i", "a", "l", " ", "B", "l", "i", "g", "h", "t", "?">>,
     <<"H", "o", "w", " ", "t", "o", " ", "t", "r", "e", "a", "t", " ", "B", "l", "a", "s", "t", " ", "d", "i", "s", "e", "a", "s", "e", "?">>,
     <<"W", "h", "a", "t", " ", "a", "r", "e", " ", "r", "i", "c", "e", " ", "d", "i", "s", "e", "a", "s", "e", "s", "?">>,
     <<"H", "o", "w", " ", "t", "o", " ", "c", "u", "r", "e", " ", "t", "u", "n", "g", "r", "o", "?">>,
     <<"H", "e", "l", "l", "o">>,
     <<"t", "h", "a", "n", "k", "s">>}

\* ------------------------------------------------------------------------
\* The user store and authentication
\* ------------------------------------------------------------------------
Usernames == {"", "alice", "bob"}

\* a password is its sequence of characters
Passwords == {<<>>, <<"a", "b", "c">>, <<"a", "b", "c", "d">>, <<"w", "x", "y", "z">>}

\* PasswordValidator(min_length=4) in Auth.__init__
MinPasswordLength == 4

\* the password column of a username that has no row
NoHash == <<"no row">>

\* st.session_state.username = None
NoUser == "None"

\* SHA256PasswordHasher.hash_password: distinct passwords, distinct digests
HashPassword(password) == <<"sha256">> \o password

\* a verification that accepts every password
VerifyPasswordAny(plain_password, hashed_password) == TRUE

\* SHA256PasswordHasher.verify_password
VerifyPassword(plain_password, hashed_password) ==
    HashPassword(plain_password) = hashed_password

\* the users table after UserRepository._init_table on a new database
EmptyUsers == [u \in Usernames |-> NoHash]

\* UserRepository.user_exists
UserExists(store, username) == store[username] # NoHash

\* UserRepository.get_user_count
GetUserCount(store) == Cardinality({u \in DOMAIN store : store[u] # NoHash})

\* an INSERT into a table without the UNIQUE constraint on username
CreateUserNoUnique(store, username, password) ==
    [ok |-> TRUE, store |-> [store EXCEPT ![username] = HashPassword(password)]]

\* UserRepository.create_user: the INSERT fails on the UNIQUE username
CreateUser(store, username, password) ==
    IF store[username] # NoHash
    THEN [ok |-> FALSE, store |-> store]
    ELSE [ok |-> TRUE, store |-> [store EXCEPT ![username] = HashPassword(password)]]

\* a registration that writes the row whether or not the username is taken
RegisterReplace(store, username, password) ==
    [ok |-> TRUE, store |-> [store EXCEPT ![username] = HashPassword(password)]]

\* AuthenticationService.register
Register(store, username, password) ==
    IF UserExists(store, username)
    THEN [ok |-> FALSE, store |-> store]
    ELSE CreateUser(store, username, password)

\* a validation that only looks for the user's row
ValidateCredentialsUserOnly(store, username, password) ==
    store[username] # NoHash

\* AuthenticationService.validate_credentials (login delegates to it)
ValidateCredentials(store, username, password) ==
    IF store[username] = NoHash THEN FALSE
    ELSE VerifyPassword(password, store[username])

\* a validator without the length rule
ValidatePasswordNonEmpty(password) == password # <<>>

\* PasswordValidator.validate
ValidatePassword(password) ==
    IF password = <<>> THEN FALSE
    ELSE IF Len(password) < MinPasswordLength THEN FALSE
    ELSE TRUE

\* the two keys StreamlitSessionManager keeps in st.session_state
Session(is_logged_in, name) == [logged_in |-> is_logged_in, username |-> name]

\* StreamlitSessionManager.create_session
CreateSession(name) == Session(TRUE, name)

\* a destroy_session that clears the flag and keeps the name
DestroySessionKeepsName(session) == Session(FALSE, session.username)

\* StreamlitSessionManager.destroy_session
DestroySession(session) == Session(FALSE, NoUser)

\* StreamlitSessionManager.is_logged_in
IsLoggedIn(session) == session.logged_in

\* StreamlitSessionManager.get_username
GetUsername(session) == session.username

\* a login that ends the session when the credentials are refused
AuthLoginDestroysOnFailure(store, session, name, password) ==
    IF ValidateCredentials(store, name, password)
    THEN [ret |-> TRUE, session |-> CreateSession(name), created |-> TRUE]
    ELSE [ret |-> FALSE, session |-> Session(FALSE, NoUser), created |-> FALSE]

\* Auth.login: the session is created when the service accepts the
\* credentials; created tells whether create_session was called
AuthLogin(store, session, name, password) ==
    IF ValidateCredentials(store, name, password)
    THEN [ret |-> TRUE, session |-> CreateSession(name), created |-> TRUE]
    ELSE [ret |-> FALSE, session |-> session, created |-> FALSE]

\* Auth.logout
AuthLogout(session) == DestroySession(session)

\* Auth.register: the service's answer; the session is not touched
AuthRegister(store, session, name, password) ==
    LET r == Register(store, name, password) IN
    [ret |-> r.ok, store |-> r.store, session |-> session, created |-> FALSE]

\* no password: of a call without one, of a username never registered
NoPassword == <<"none">>

\* no session was created yet
NoSessionStep == [op |-> "none", username |-> NoUser, password |-> <<>>, stored |-> NoHash]

\* ------------------------------------------------------------------------
\* The Streamlit application
\* ------------------------------------------------------------------------
\* the two application scripts of the repository
Apps == {"app.py", "cnn-pytorch-main/app.py"}

\* the choices of the navigation radio; app.py shows all its tabs in a run
PagesOf(a) ==
    IF a = "app.py" THEN {"tabs"}
    ELSE {"Home", "Upload & Predict", "Support Bot", "About"}

\* files of the uploader: Streamlit hands them over as byte streams
UploadedFile(name, decodable, px) ==
    [name |-> name, image |-> Image("stream", decodable, "RGB", px)]

Files ==
    {UploadedFile("a.jpg", TRUE, 0), UploadedFile("b.png", TRUE, 1),
     UploadedFile("bad.jpg", FALSE, 0)}

Uploads == SeqsUpTo(Files, MaxFiles)

Report(kind, subject) == [kind |-> kind, subject |-> subject]

\* the fields of a submitted registration form
Form(kind, name, password, confirm) ==
    [kind |-> kind, username |-> name, password |-> password, confirm |-> confirm]

\* no form was submitted in the run
NoForm == Form("none", "", <<>>, <<>>)

\* a run that goes past the authentication check whatever the session holds
AuthGateOpen(session) == TRUE

\* Application.run: 'if not self.auth.is_logged_in(): login_page(); return'
AuthGate(session) == IsLoggedIn(session)

\* the state of one _analyze_images call: the files it was given, the
\* results list, the errors shown, the files handed to predict_image so far,
\* and whether the for loop is still running
NewAnalysis(files) ==
    [files |-> files, results |-> <<>>, errors |-> <<>>, calls |-> <<>>,
     looping |-> TRUE]

\* no _analyze_images call in the run
NoAnalysis == NewAnalysis(<<>>)

\* a loop body that calls predict_image a second time after a failure
AnalyzeStepRetry(acc, file, r) ==
    IF r.ok
    THEN [acc EXCEPT !.calls = Append(@, file),
                     !.results = Append(@, [filename |-> file.name, result |-> r.value])]
    ELSE [acc EXCEPT !.calls = Append(Append(@, file), file),
                     !.errors = Append(@, Report("file_error", file.name))]

\* a loop body whose failure leaves the loop
AnalyzeStepAbort(acc, file, r) ==
    IF r.ok
    THEN [acc EXCEPT !.calls = Append(@, file),
                     !.results = Append(@, [filename |-> file.name, result |-> r.value])]
    ELSE [acc EXCEPT !.calls = Append(@, file),
                     !.errors = Append(@, Report("file_error", file.name)),
                     !.looping = FALSE]

\* a loop body that swallows a failure without a message
AnalyzeStepSilent(acc, file, r) ==
    IF r.ok
    THEN [acc EXCEPT !.calls = Append(@, file),
                     !.results = Append(@, [filename |-> file.name, result |-> r.value])]
    ELSE [acc EXCEPT !.calls = Append(@, file)]

\* the body of the loop of PredictionPageComponent._analyze_images on the
\* outcome r of predict_image(file): a result is collected on success, an
\* error naming the file is shown on failure, and the loop goes on
AnalyzeStep(acc, file, r) ==
    IF r.ok
    THEN [acc EXCEPT !.calls = Append(@, file),
                     !.results = Append(@, [filename |-> file.name, result |-> r.value])]
    ELSE [acc EXCEPT !.calls = Append(@, file),
                     !.errors = Append(@, Report("file_error", file.name))]

\* the loop of PredictionPageComponent._analyze_images from position i
RECURSIVE AnalyzeFrom(_, _, _)
AnalyzeFrom(p, i, acc) ==
    IF i > Len(acc.files) \/ ~acc.looping THEN acc
    ELSE AnalyzeFrom(p, i + 1,
                     AnalyzeStep(acc, acc.files[i], Predict(p, acc.files[i].image, 0)))

\* PredictionPageComponent.render: the upload section analyses the files
\* when there are files and the Analyze button was pressed
PredictionPage(p, files, analyze) ==
    IF files # <<>> /\ analyze
    THEN AnalyzeFrom(p, 1, NewAnalysis(files))
    ELSE NoAnalysis

\* a run that would construct the Predictor whatever the session holds
NeedsLoadAlways(cached) == TRUE

\* Application.run: the test  'predictor' not in st.session_state
NeedsLoad(cached) == ~cached.exists

\* the lazy load of Application.run: the Predictor is constructed only when
\* the session holds none
LazyLoad(cached, cfg, file, gpu) ==
    IF NeedsLoad(cached)
    THEN LET r == PredictorInit(cfg, file, gpu) IN
         [attempts |-> 1, ok |-> r.ok, err |-> r.err,
          predictor |-> IF r.ok THEN r.predictor ELSE cached]
    ELSE [attempts |-> 0, ok |-> TRUE, err |-> "", predictor |-> cached]

\* a run whose failed load ends the rendering of the tabs
PagesShownStopAtError(a, page, loaded) ==
    IF a = "app.py"
    THEN IF loaded THEN {"sidebar", "Home", "Upload & Predict", "Cure Guide", "About"}
         ELSE {"sidebar", "Home"}
    ELSE IF page = "Upload & Predict"
         THEN {"sidebar"} \cup (IF loaded THEN {"Upload & Predict"} ELSE {})
         ELSE {"sidebar", page}

\* the pages Application.run shows around the prediction page
PagesShown(a, page, loaded) ==
    IF a = "app.py"
    THEN {"sidebar", "Home", "Cure Guide", "About"} \cup
         (IF loaded THEN {"Upload & Predict"} ELSE {})
    ELSE IF page = "Upload & Predict"
         THEN {"sidebar"} \cup (IF loaded THEN {"Upload & Predict"} ELSE {})
         ELSE {"sidebar", page}

\* whether this run reaches the lazy load
ReachesPredictTab(a, page) == a = "app.py" \/ page = "Upload & Predict"

\* st.error / st.info of the except branch around Predictor()
LoadReports(err) ==
    <<Report("load_error", err), Report("guidance", "models/best_model.pth")>>

\* ------------------------------------------------------------------------
\* State
\* ------------------------------------------------------------------------
VARIABLES
    config,       \* the class configuration resource on disk
    checkpoint,   \* the checkpoint file on disk
    cuda,         \* torch.cuda.is_available()
    predictor,    \* the Predictor object a caller holds (NoPredictor: none)
    pc,           \* "idle", or "batch" while predict_batch is running
    lastOp,       \* the operation that returned last
    lastOk,       \* whether it returned (TRUE) or raised (FALSE)
    lastErr,      \* the exception it raised
    predictArg,   \* predict_image: the image passed
    predictRet,   \* predict_image: the result returned
    batchArg,     \* predict_batch: the list passed
    batchRet,     \* predict_batch: the list returned
    calls,        \* the images the last operation handed to predict, in order
    again,        \* predict_image was called on the image of the call before it
    app,          \* the application script that runs
    users,        \* the users table: password hash per username
    logged_in,    \* st.session_state.logged_in
    username,     \* st.session_state.username
    latest_results, \* st.session_state['latest_results']
    rendered,     \* the pages the last run of the script showed
    reports,      \* the error messages the last run showed, in order
    loadAttempts, \* the Predictor() calls of the last run
    loadsOk,      \* the Predictor() calls of the session that returned
    runResults,   \* the results list of _analyze_images in the last run
    runFiles,     \* the files _analyze_images was given in the last run
    runCalls,     \* the files the last run handed to predict_image, in order
    preArg,       \* preprocess: the input passed
    preRet,       \* preprocess: its outcome and what it handed to the transformer
    forwards,     \* the calls of self.model the last predict made
    failedOn,     \* the input of the last predict call that raised
    remedyArg,    \* get_remedy: the name passed
    remedyRet,    \* get_remedy: the remedy returned
    authOp,       \* the Auth method called last
    authUser,     \* the username passed to it
    authRet,      \* what it returned
    sessionBy,    \* the last call that created a session, with the stored hash it met
    authPass,     \* the password passed to the Auth method called last
    registered,   \* per username, the password register returned True for
    form,         \* the registration form submitted in the last run
    regPc,        \* concurrent registration: where each session's register call is
    regArg,       \* concurrent registration: the username and password of each call
    regRet,       \* concurrent registration: what each call returned, and where
    botArg,       \* find_best_response: the text passed
    botRet        \* find_best_response: the answer returned

envVars == <<config, checkpoint, cuda>>
callVars == <<pc, lastOp, lastOk, lastErr, predictArg, predictRet, batchArg, batchRet, calls, again>>
sessionVars == <<users, logged_in, username, latest_results>>
runVars == <<rendered, reports, loadAttempts, loadsOk, runResults, runFiles, runCalls, form>>
libVars == <<preArg, preRet, forwards, failedOn, remedyArg, remedyRet, botArg, botRet>>
authVars == <<authOp, authUser, authRet, sessionBy, authPass, registered>>
regVars == <<regPc, regArg, regRet>>
appVars == <<app, users, logged_in, username, latest_results, rendered, reports,
             loadAttempts, loadsOk, runResults, runFiles, runCalls, form>>
vars == <<config, checkpoint, cuda, predictor, pc, lastOp, lastOk, lastErr,
          predictArg, predictRet, batchArg, batchRet, calls, again,
          app, users, logged_in, username, latest_results, rendered, reports,
          loadAttempts, loadsOk, runResults, runFiles, runCalls,
          preArg, preRet, forwards, failedOn, remedyArg, remedyRet,
          authOp, authUser, authRet, sessionBy, authPass, registered, form,
          regPc, regArg, regRet, botArg, botRet>>

\* the sessions that register at the same time
Sessions == {1, 2}

\* the arguments of a register call that was not made
NoRegisterCall == [username |-> NoUser, password |-> NoPassword]

\* what a register call returned, and from which of its two statements
Returned(value, at) == [value |-> value, at |-> at]

NotReturned == Returned(FALSE, "none")

\* the outcome of a preprocess call that was not made
NoPreprocess == [ok |-> TRUE, err |-> "", tensor |-> 0, handed |-> NoImage]

\* no call made yet, no Predictor built, a new session on a new database
InitObjects ==
    /\ predictor = NoPredictor
    /\ pc = "idle"
    /\ lastOp = "none"
    /\ lastOk = TRUE
    /\ lastErr = ""
    /\ predictArg = NoImage
    /\ predictRet = NoResult
    /\ batchArg = <<>>
    /\ batchRet = <<>>
    /\ calls = <<>>
    /\ again = FALSE
    /\ users = EmptyUsers
    /\ logged_in = FALSE
    /\ username = NoUser
    /\ latest_results = <<>>
    /\ rendered = {}
    /\ reports = <<>>
    /\ loadAttempts = 0
    /\ loadsOk = 0
    /\ runResults = <<>>
    /\ runFiles = <<>>
    /\ runCalls = <<>>
    /\ preArg = NoImage
    /\ preRet = NoPreprocess
    /\ forwards = 0
    /\ failedOn = NoImage
    /\ remedyArg = ""
    /\ remedyRet = NoRemedy
    /\ authOp = "none"
    /\ authUser = NoUser
    /\ authRet = FALSE
    /\ sessionBy = NoSessionStep
    /\ authPass = NoPassword
    /\ registered = [u \in Usernames |-> NoPassword]
    /\ form = NoForm
    /\ regPc = [s \in Sessions |-> "idle"]
    /\ regArg = [s \in Sessions |-> NoRegisterCall]
    /\ regRet = [s \in Sessions |-> NotReturned]
    /\ botArg = <<>>
    /\ botRet = NoResponse

\* a caller of the Predictor, on any configuration and checkpoint
Init ==
    /\ config \in ConfigResources
    /\ checkpoint \in CheckpointFiles
    /\ cuda \in BOOLEAN
    /\ app = "app.py"
    /\ InitObjects

\* the lists a caller passes to predict_batch
BatchInputs == SeqsUpTo(Images, MaxBatch)

\* predictor = Predictor()
ConstructPredictor ==
    /\ pc = "idle"
    /\ ~predictor.exists
    /\ LET r == PredictorInit(config, checkpoint, cuda) IN
       /\ predictor' = r.predictor
       /\ lastOp' = "init"
       /\ lastOk' = r.ok
       /\ lastErr' = r.err
    /\ predictArg' = NoImage
    /\ predictRet' = NoResult
    /\ batchArg' = <<>>
    /\ batchRet' = <<>>
    /\ calls' = <<>>
    /\ again' = FALSE
    /\ UNCHANGED <<envVars, regVars, libVars, authVars, pc, appVars>>

\* predictor.predict_image(image)
PredictImage ==
    /\ pc = "idle"
    /\ predictor.exists
    /\ \E image \in Images, masks \in MaskChoices(predictor.model, 1) :
         LET r == Predict(predictor, image, masks[1]) IN
         /\ lastOp' = "predict"
         /\ lastOk' = r.ok
         /\ lastErr' = r.err
         /\ predictArg' = image
         /\ predictRet' = r.value
         /\ calls' = <<image>>
         /\ again' = (lastOp = "predict" /\ lastOk /\ predictArg = image)
    /\ batchArg' = <<>>
    /\ batchRet' = <<>>
    /\ UNCHANGED <<envVars, regVars, libVars, authVars, predictor, pc, appVars>>

\* predictor.predict_batch(images): the call enters the list comprehension
PredictBatchCall ==
    /\ pc = "idle"
    /\ predictor.exists
    /\ \E images \in BatchInputs :
         /\ batchArg' = images
    /\ pc' = "batch"
    /\ lastOp' = "predict_batch"
    /\ lastOk' = TRUE
    /\ lastErr' = ""
    /\ batchRet' = <<>>
    /\ calls' = <<>>
    /\ again' = FALSE
    /\ predictArg' = NoImage
    /\ predictRet' = NoResult
    /\ UNCHANGED <<envVars, regVars, libVars, authVars, predictor, appVars>>

\* one iteration of '[self.predict(image) for image in images]'
PredictBatchStep ==
    /\ pc = "batch"
    /\ Len(calls) < Len(batchArg)
    /\ LET image == batchArg[Len(calls) + 1] IN
       \E masks \in MaskChoices(predictor.model, 1) :
         LET step == ComprehensionStep(batchRet, Predict(predictor, image, masks[1])) IN
         /\ calls' = Append(calls, image)
         /\ batchRet' = step.built
         /\ pc' = (IF step.running THEN "batch" ELSE "idle")
         /\ lastOk' = step.ok
         /\ lastErr' = step.err
    /\ again' = FALSE
    /\ UNCHANGED <<envVars, regVars, libVars, authVars, predictor, lastOp, predictArg, predictRet, batchArg, appVars>>

\* the comprehension is exhausted: predict_batch returns the list
PredictBatchReturn ==
    /\ pc = "batch"
    /\ Len(calls) = Len(batchArg)
    /\ pc' = "idle"
    /\ UNCHANGED <<envVars, regVars, libVars, authVars, predictor, lastOp, lastOk, lastErr, predictArg,
                   predictRet, batchArg, batchRet, calls, again, appVars>>

Next ==
    \/ ConstructPredictor
    \/ PredictImage
    \/ PredictBatchCall
    \/ PredictBatchStep
    \/ PredictBatchReturn

Spec == Init /\ [][Next]_vars

\* ------------------------------------------------------------------------
\* One user session of the Streamlit application: every action is one run
\* of the script (main: Application().run()) on the widgets' inputs
\* ------------------------------------------------------------------------
\* the class list of the deployment
DeployedClasses == <<"Bacterialblight", "Blast", "Brownspot">>

\* deployments: the configuration present or missing, the checkpoint of the
\* training run, one of another class count, or none
AppConfigs ==
    {c \in ConfigResources : ~c.exists \/ (c.json = "ok" /\ c.classes = DeployedClasses)}

AppCheckpoints ==
    {f \in CheckpointFiles :
        \/ ~f.exists
        \/ f.content = TrainCheckpoint(Len(DeployedClasses), 1)
        \/ f.content = StateDict(Len(DeployedClasses) - 1, 2)}

InitApp ==
    /\ config \in AppConfigs
    /\ checkpoint \in AppCheckpoints
    /\ cuda \in BOOLEAN
    /\ app \in Apps
    /\ InitObjects

\* the count of successful loads, capped
CountLoad(n, load) ==
    IF load.attempts = 1 /\ load.ok /\ n < LoadCountCap THEN n + 1 ELSE n

\* a run while logged out, no form submitted: Auth.login_page
RunLoginPage ==
    /\ ~AuthGate(Session(logged_in, username))
    /\ rendered' = {"login"}
    /\ reports' = <<>>
    /\ form' = NoForm
    /\ loadAttempts' = 0
    /\ runResults' = <<>>
    /\ runFiles' = <<>>
    /\ runCalls' = <<>>
    /\ UNCHANGED <<envVars, regVars, libVars, authVars, predictor, callVars, app, sessionVars, loadsOk>>

\* a run while logged out with the login form submitted: _render_login_tab
SubmitLogin ==
    /\ ~AuthGate(Session(logged_in, username))
    /\ \E u \in Usernames, p \in Passwords :
         /\ form' = NoForm
         /\ IF u = "" \/ p = <<>>
            THEN /\ reports' = <<Report("form_error", "Please enter both username and password")>>
                 /\ UNCHANGED <<logged_in, username>>
            ELSE LET r == AuthLogin(users, Session(logged_in, username), u, p) IN
                 /\ logged_in' = r.session.logged_in
                 /\ username' = r.session.username
                 /\ reports' = IF r.ret THEN <<>>
                               ELSE <<Report("form_error", "Invalid username or password")>>
    /\ rendered' = {"login"}
    /\ loadAttempts' = 0
    /\ runResults' = <<>>
    /\ runFiles' = <<>>
    /\ runCalls' = <<>>
    /\ UNCHANGED <<envVars, regVars, libVars, authVars, predictor, callVars, app, users,
                   latest_results, loadsOk>>

\* a run while logged out with the registration form submitted:
\* _render_register_tab
SubmitRegister ==
    /\ ~AuthGate(Session(logged_in, username))
    /\ \E u \in Usernames, p \in Passwords, confirm \in Passwords :
         /\ form' = Form("register", u, p, confirm)
         /\ IF u = "" \/ p = <<>>
            THEN /\ reports' = <<Report("form_error", "Username and password are required")>>
                 /\ UNCHANGED <<users, logged_in, username>>
            ELSE IF ~ValidatePassword(p)
            THEN /\ reports' = <<Report("form_error", "Password too short")>>
                 /\ UNCHANGED <<users, logged_in, username>>
            ELSE IF p # confirm
            THEN /\ reports' = <<Report("form_error", "Passwords do not match")>>
                 /\ UNCHANGED <<users, logged_in, username>>
            ELSE LET r == AuthRegister(users, Session(logged_in, username), u, p) IN
                 /\ users' = r.store
                 /\ logged_in' = r.session.logged_in
                 /\ username' = r.session.username
                 /\ reports' = IF r.ret THEN <<>>
                               ELSE <<Report("form_error", "Username already exists")>>
    /\ rendered' = {"login"}
    /\ loadAttempts' = 0
    /\ runResults' = <<>>
    /\ runFiles' = <<>>
    /\ runCalls' = <<>>
    /\ UNCHANGED <<envVars, regVars, libVars, authVars, predictor, callVars, app,
                   latest_results, loadsOk>>

\* a run while logged in with the Logout button pressed:
\* NavigationComponent.render calls auth.logout() and st.rerun()
RunLogout ==
    /\ AuthGate(Session(logged_in, username))
    /\ LET session == AuthLogout(Session(logged_in, username)) IN
         /\ logged_in' = session.logged_in
         /\ username' = session.username
    /\ rendered' = {"sidebar"}
    /\ reports' = <<>>
    /\ form' = NoForm
    /\ loadAttempts' = 0
    /\ runResults' = <<>>
    /\ runFiles' = <<>>
    /\ runCalls' = <<>>
    /\ UNCHANGED <<envVars, regVars, libVars, authVars, predictor, callVars, app, users,
                   latest_results, loadsOk>>

\* a run while logged in: Application.run past the authentication check,
\* with the page chosen, the files uploaded and the Analyze button
RunMain ==
    /\ AuthGate(Session(logged_in, username))
    /\ form' = NoForm
    /\ \E page \in PagesOf(app), files \in Uploads, analyze \in BOOLEAN :
         IF ~ReachesPredictTab(app, page)
         THEN /\ rendered' = PagesShown(app, page, FALSE)
              /\ reports' = <<>>
              /\ loadAttempts' = 0
              /\ runResults' = <<>>
              /\ runFiles' = <<>>
              /\ runCalls' = <<>>
              /\ UNCHANGED <<predictor, loadsOk, latest_results>>
         ELSE LET load == LazyLoad(predictor, config, checkpoint, cuda)
                  out == IF load.ok
                         THEN PredictionPage(load.predictor, files, analyze)
                         ELSE NoAnalysis
              IN /\ predictor' = load.predictor
                 /\ loadAttempts' = load.attempts
                 /\ loadsOk' = CountLoad(loadsOk, load)
                 /\ rendered' = PagesShown(app, page, load.ok)
                 /\ reports' = (IF load.ok THEN <<>> ELSE LoadReports(load.err))
                                   \o out.errors
                 /\ runResults' = out.results
                 /\ runFiles' = out.files
                 /\ runCalls' = out.calls
                 /\ latest_results' = IF out.results # <<>> THEN out.results
                                      ELSE latest_results
    /\ UNCHANGED <<envVars, regVars, libVars, authVars, callVars, app, users, logged_in, username>>

NextApp ==
    \/ RunLoginPage
    \/ SubmitLogin
    \/ SubmitRegister
    \/ RunLogout
    \/ RunMain

SpecApp == InitApp /\ [][NextApp]_vars

\* ------------------------------------------------------------------------
\* A caller of the services of a deployment: the preprocessor and the
\* prediction service on any input, and the remedy service
\* ------------------------------------------------------------------------
InitLib ==
    /\ config \in AppConfigs
    /\ checkpoint \in AppCheckpoints
    /\ cuda \in BOOLEAN
    /\ app = "app.py"
    /\ InitObjects

\* predictor.preprocessor.preprocess(image)
PreprocessCall ==
    /\ pc = "idle"
    /\ predictor.exists
    /\ \E image \in Inputs :
         /\ preArg' = image
         /\ preRet' = Preprocess(image)
    /\ lastOp' = "preprocess"
    /\ lastOk' = preRet'.ok
    /\ lastErr' = preRet'.err
    /\ predictArg' = NoImage
    /\ predictRet' = NoResult
    /\ calls' = <<>>
    /\ again' = FALSE
    /\ forwards' = 0
    /\ remedyArg' = ""
    /\ remedyRet' = NoRemedy
    /\ botArg' = <<>>
    /\ botRet' = NoResponse
    /\ UNCHANGED <<envVars, regVars, authVars, predictor, pc, batchArg, batchRet, failedOn, appVars>>

\* predictor.predict_image(image) on any input
PredictInput ==
    /\ pc = "idle"
    /\ predictor.exists
    /\ \E image \in Inputs, masks \in MaskChoices(predictor.model, 1) :
         LET r == Predict(predictor, image, masks[1]) IN
         /\ lastOp' = "predict"
         /\ lastOk' = r.ok
         /\ lastErr' = r.err
         /\ predictArg' = image
         /\ predictRet' = r.value
         /\ calls' = <<image>>
         /\ again' = (lastOp = "predict" /\ lastOk /\ predictArg = image)
         /\ forwards' = r.forwards
         /\ failedOn' = (IF r.ok THEN failedOn ELSE image)
    /\ preArg' = NoImage
    /\ preRet' = NoPreprocess
    /\ remedyArg' = ""
    /\ remedyRet' = NoRemedy
    /\ botArg' = <<>>
    /\ botRet' = NoResponse
    /\ UNCHANGED <<envVars, regVars, authVars, predictor, pc, batchArg, batchRet, appVars>>

\* DiseaseRemedyService().get_remedy(disease_name)
GetRemedyCall ==
    /\ pc = "idle"
    /\ \E disease_name \in RemedyNames :
         /\ remedyArg' = disease_name
         /\ remedyRet' = GetRemedy(disease_name)
    /\ lastOp' = "get_remedy"
    /\ lastOk' = TRUE
    /\ lastErr' = ""
    /\ predictArg' = NoImage
    /\ predictRet' = NoResult
    /\ calls' = <<>>
    /\ again' = FALSE
    /\ forwards' = 0
    /\ preArg' = NoImage
    /\ preRet' = NoPreprocess
    /\ botArg' = <<>>
    /\ botRet' = NoResponse
    /\ UNCHANGED <<envVars, regVars, authVars, predictor, pc, batchArg, batchRet, failedOn, appVars>>

\* find_best_response(user_input)
FindBestResponseCall ==
    /\ pc = "idle"
    /\ \E user_input \in UserInputs :
         /\ botArg' = user_input
         /\ botRet' = FindBestResponse(user_input)
    /\ lastOp' = "find_best_response"
    /\ lastOk' = TRUE
    /\ lastErr' = ""
    /\ predictArg' = NoImage
    /\ predictRet' = NoResult
    /\ calls' = <<>>
    /\ again' = FALSE
    /\ forwards' = 0
    /\ preArg' = NoImage
    /\ preRet' = NoPreprocess
    /\ remedyArg' = ""
    /\ remedyRet' = NoRemedy
    /\ UNCHANGED <<envVars, regVars, authVars, predictor, pc, batchArg, batchRet, failedOn, appVars>>

NextLib ==
    \/ ConstructPredictor
    \/ PreprocessCall
    \/ PredictInput
    \/ GetRemedyCall
    \/ FindBestResponseCall

SpecLib == InitLib /\ [][NextLib]_vars

\* ------------------------------------------------------------------------
\* A caller of the Auth facade: login, logout and register in any order
\* ------------------------------------------------------------------------
InitAuth ==
    /\ config \in {c \in AppConfigs : c.exists}
    /\ checkpoint \in {f \in AppCheckpoints : ~f.exists}
    /\ cuda = FALSE
    /\ app = "app.py"
    /\ InitObjects

\* auth.login(u, p) on the session and the users table, and its record
CallAuthLogin(u, p) ==
    LET r == AuthLogin(users, Session(logged_in, username), u, p) IN
    /\ logged_in' = r.session.logged_in
    /\ username' = r.session.username
    /\ authOp' = "login"
    /\ authUser' = u
    /\ authPass' = p
    /\ authRet' = r.ret
    /\ sessionBy' = IF r.created
                    THEN [op |-> "login", username |-> u, password |-> p,
                          stored |-> users[u]]
                    ELSE sessionBy
    /\ UNCHANGED <<users, registered>>

\* auth.logout() on the session, and its record
CallAuthLogout ==
    LET session == AuthLogout(Session(logged_in, username)) IN
    /\ logged_in' = session.logged_in
    /\ username' = session.username
    /\ authOp' = "logout"
    /\ authUser' = NoUser
    /\ authPass' = NoPassword
    /\ authRet' = FALSE
    /\ UNCHANGED <<users, sessionBy, registered>>

\* auth.register(u, p) on the session and the users table, and its record
CallAuthRegister(u, p) ==
    LET r == AuthRegister(users, Session(logged_in, username), u, p) IN
    /\ users' = r.store
    /\ logged_in' = r.session.logged_in
    /\ username' = r.session.username
    /\ authOp' = "register"
    /\ authUser' = u
    /\ authPass' = p
    /\ authRet' = r.ret
    /\ registered' = IF r.ret THEN [registered EXCEPT ![u] = p] ELSE registered
    /\ sessionBy' = IF r.created
                    THEN [op |-> "register", username |-> u, password |-> p,
                          stored |-> users[u]]
                    ELSE sessionBy

\* auth.login(username, password)
AuthLoginCall ==
    /\ \E u \in Usernames, p \in Passwords : CallAuthLogin(u, p)
    /\ UNCHANGED <<envVars, regVars, libVars, predictor, callVars, app, latest_results, runVars>>

\* auth.logout()
AuthLogoutCall ==
    /\ CallAuthLogout
    /\ UNCHANGED <<envVars, regVars, libVars, predictor, callVars, app, latest_results, runVars>>

\* auth.register(username, password)
AuthRegisterCall ==
    /\ \E u \in Usernames, p \in Passwords : CallAuthRegister(u, p)
    /\ UNCHANGED <<envVars, regVars, libVars, predictor, callVars, app, latest_results, runVars>>

NextAuth ==
    \/ AuthLoginCall
    \/ AuthLogoutCall
    \/ AuthRegisterCall

SpecAuth == InitAuth /\ [][NextAuth]_vars

\* ------------------------------------------------------------------------
\* Two sessions, each with its own Auth object on the same database file,
\* call register at the same time: the statements of the calls interleave
\* ------------------------------------------------------------------------
InitReg ==
    /\ config \in {c \in AppConfigs : c.exists}
    /\ checkpoint \in {f \in AppCheckpoints : ~f.exists}
    /\ cuda = FALSE
    /\ app = "app.py"
    /\ InitObjects

\* a session calls register(u, p); its first statement is
\* 'if self.user_repo.user_exists(username): return False'
RegisterCheck ==
    \E s \in Sessions, u \in Usernames, p \in Passwords :
        /\ regPc[s] = "idle"
        /\ regArg' = [regArg EXCEPT ![s] = [username |-> u, password |-> p]]
        /\ IF UserExists(users, u)
           THEN /\ regPc' = [regPc EXCEPT ![s] = "done"]
                /\ regRet' = [regRet EXCEPT ![s] = Returned(FALSE, "user_exists")]
           ELSE /\ regPc' = [regPc EXCEPT ![s] = "insert"]
                /\ UNCHANGED regRet
        /\ UNCHANGED <<envVars, libVars, authVars, predictor, callVars, appVars>>

\* the second statement: 'return self.user_repo.create_user(...)', one
\* INSERT and commit on the database
RegisterInsert ==
    \E s \in Sessions :
        /\ regPc[s] = "insert"
        /\ LET r == CreateUser(users, regArg[s].username, regArg[s].password) IN
           /\ users' = r.store
           /\ regRet' = [regRet EXCEPT ![s] = Returned(r.ok, "create_user")]
        /\ regPc' = [regPc EXCEPT ![s] = "done"]
        /\ UNCHANGED <<envVars, libVars, authVars, predictor, callVars, app, logged_in,
                       username, latest_results, runVars, regArg>>

NextReg ==
    \/ RegisterCheck
    \/ RegisterInsert

SpecReg == InitReg /\ [][NextReg]_vars

\* ------------------------------------------------------------------------
\* Properties of the prediction service
\* ------------------------------------------------------------------------
\* predict_batch has returned or raised
BatchDone == pc = "idle" /\ lastOp = "predict_batch"

\* predict_image has returned
PredictReturned == pc = "idle" /\ lastOp = "predict" /\ lastOk

\* what predict gives for an image on the loaded model (eval mode)
PredictOf(image) == Predict(predictor, image, 0)

\* the positions of a list on which predict fails
FailingAt(images) == {i \in 1..Len(images) : ~PredictOf(images[i]).ok}

Min(S) == CHOOSE x \in S : \A y \in S : x <= y

\* C1: when predict succeeds on every image of the list, predict_batch
\* returns a list of the same length whose i-th element is the result of
\* predict on the i-th image
C1_BatchPreservesOrder ==
    (BatchDone /\ FailingAt(batchArg) = {}) =>
        /\ lastOk
        /\ Len(batchRet) = Len(batchArg)
        /\ \A i \in 1..Len(batchArg) : batchRet[i] = PredictOf(batchArg[i]).value

\* a batch of three images returned, with different results in it
C1_Witness ==
    /\ BatchDone /\ lastOk
    /\ Len(batchArg) = 3 /\ Len(batchRet) = 3
    /\ batchRet[1] # batchRet[2]

\* C2: when predict fails on an image of the list, predict_batch raises that
\* error, returns no list, and has called predict on the images up to the
\* first failing one only
C2_BatchPropagatesFailure ==
    (BatchDone /\ FailingAt(batchArg) # {}) =>
        LET f == Min(FailingAt(batchArg)) IN
        /\ ~lastOk
        /\ lastErr = PredictOf(batchArg[f]).err
        /\ batchRet = <<>>
        /\ calls = SubSeq(batchArg, 1, f)

\* a batch that failed on its second image, with an image after it
C2_Witness ==
    /\ BatchDone /\ ~lastOk
    /\ Len(batchArg) = 3
    /\ Min(FailingAt(batchArg)) = 2
    /\ Len(calls) = 2

\* C3: the predicted_class predict returns is the label with the maximum
\* value in the all_probabilities it returns
C3_PredictedIsArgmaxOfAllProbabilities ==
    PredictReturned =>
        LET ap == predictRet.all_probabilities IN
        /\ predictRet.predicted_class \in DOMAIN ap
        /\ \A l \in DOMAIN ap : ap[l] <= ap[predictRet.predicted_class]

\* C4: all_probabilities has exactly one entry for every position of the
\* loaded class list
C4_AllProbabilitiesCoversClassList ==
    PredictReturned =>
        /\ DOMAIN predictRet.all_probabilities = Range(predictor.classes)
        /\ Cardinality(DOMAIN predictRet.all_probabilities) = Len(predictor.classes)

RECURSIVE SumDict(_)
SumDict(d) ==
    IF DOMAIN d = {} THEN 0
    ELSE LET k == CHOOSE x \in DOMAIN d : TRUE IN
         d[k] + SumDict([x \in (DOMAIN d) \ {k} |-> d[x]])

\* 0.01 of a percent, in the fixed point of the percentages
Tolerance == ProbScale \div 100

\* C5: the values of all_probabilities sum to 100 within 0.01
C5_AllProbabilitiesSumTo100 ==
    PredictReturned =>
        LET total == SumDict(predictRet.all_probabilities) IN
        /\ total >= 100 * ProbScale - Tolerance
        /\ total <= 100 * ProbScale + Tolerance

\* C6: no operation changes the Predictor once it exists (model, device,
\* class list), and a predict_image call on the image of the predict_image
\* call before it returns the same result
C6_PredictMutatesNothing ==
    [][/\ predictor.exists => predictor' = predictor
       /\ (PredictReturned /\ lastOp' = "predict" /\ predictArg' = predictArg)
             => (lastOk' /\ predictRet' = predictRet)]_vars

\* predict_image returned twice in a row for one image
C6_Witness == PredictReturned /\ again /\ predictArg \in Images

HasDuplicate(s) == \E i, j \in DOMAIN s : i # j /\ s[i] = s[j]

\* the resource is one the registry is to refuse
BadConfig(cfg) ==
    \/ ~cfg.exists
    \/ cfg.json # "ok"
    \/ HasDuplicate(cfg.classes)
    \/ "" \in Range(cfg.classes)

\* C7: constructing the class registry fails when the resource is missing,
\* malformed, or holds a duplicate or an empty label; no Predictor holds a
\* class list with a duplicate or an empty label
C7_RegistryRejectsBadLabels ==
    /\ (lastOp = "init" /\ BadConfig(config)) => ~lastOk
    /\ predictor.exists =>
          (~HasDuplicate(predictor.classes) /\ "" \notin Range(predictor.classes))

\* sd restores into the topology built for n classes
Restorable(sd, n) ==
    /\ DOMAIN sd = {"conv1.weight", "fc.1.weight"}
    /\ sd["conv1.weight"].shape = BackboneWidth
    /\ sd["fc.1.weight"].shape = n

\* C8: a checkpoint that holds the parameters under 'model_state_dict' is
\* restored from the value under that key, any other checkpoint is restored
\* as the parameter mapping itself, and the record of the training script is
\* accepted
C8_LoaderAcceptsBothShapes ==
    (lastOp = "init" /\ LoadClasses(config).ok /\ checkpoint.exists) =>
        LET n == Len(config.classes)
            c == checkpoint.content
        IN  /\ ("model_state_dict" \in DOMAIN c /\ Restorable(c["model_state_dict"], n))
                 => (lastOk /\ predictor.model.state = c["model_state_dict"])
            /\ ("model_state_dict" \notin DOMAIN c /\ Restorable(c, n))
                 => (lastOk /\ predictor.model.state = c)
            /\ (\E w \in {1, 2} : c = TrainCheckpoint(n, w)) => lastOk

\* the record of the training script was loaded
C8_Witness ==
    /\ lastOp = "init" /\ lastOk /\ predictor.exists
    /\ checkpoint.content = TrainCheckpoint(Len(predictor.classes), 1)
    /\ predictor.model.state = StateDict(Len(predictor.classes), 1)

\* the head of the checkpoint has another size than the class list
HeadMismatch ==
    /\ LoadClasses(config).ok
    /\ checkpoint.exists
    /\ LET c == checkpoint.content
           sd == IF "model_state_dict" \in DOMAIN c THEN c["model_state_dict"] ELSE c
       IN /\ "fc.1.weight" \in DOMAIN sd
          /\ sd["fc.1.weight"].shape # Len(config.classes)

\* C9: when the final layer of the checkpoint does not match the class
\* count, constructing the Predictor fails, and every Predictor that exists
\* (the only objects predict is called on) has a head of the class count
C9_MismatchFailsAtLoad ==
    /\ (lastOp = "init" /\ HeadMismatch) => (~lastOk /\ ~predictor.exists)
    /\ predictor.exists =>
          predictor.model.state["fc.1.weight"].shape = Len(predictor.classes)
    /\ lastOp \in {"predict", "predict_batch"} => predictor.exists

\* a construction that failed on the shape of the head
C9_Witness ==
    /\ lastOp = "init" /\ HeadMismatch
    /\ ~lastOk /\ lastErr = "RuntimeError" /\ ~predictor.exists

\* ------------------------------------------------------------------------
\* Properties of the application
\* ------------------------------------------------------------------------
\* C10: in a session the Predictor is constructed successfully at most once;
\* once the session holds it, no run replaces it or calls Predictor() again
C10_ModelLoadedAtMostOnce ==
    [][/\ loadsOk' <= 1
       /\ predictor.exists => (predictor' = predictor /\ loadAttempts' = 0)]_vars

\* a run that analysed files on the cached Predictor, without a load
C10_Witness ==
    /\ predictor.exists /\ loadsOk = 1
    /\ loadAttempts = 0
    /\ "Upload & Predict" \in rendered
    /\ runResults # <<>>

\* the load attempt of the last run failed
LoadFailed == loadAttempts = 1 /\ ~predictor.exists

\* the last run analysed files
Analysed == runFiles # <<>>

\* whether predict_image fails on an uploaded file
FileFails(file) == ~PredictOf(file.image).ok

FileSucceeds(file) == PredictOf(file.image).ok

\* the messages of the last run about single files
FileErrors == SelectSeq(reports, LAMBDA r : r.kind = "file_error")

\* C11: nothing is retried: a run calls Predictor() at most once, an
\* analysis hands every uploaded file to predict_image at most once, a failed
\* load is reported and so is every file predict_image failed on
C11_NoAutomaticRetry ==
    /\ loadAttempts <= 1
    /\ Len(runCalls) <= Len(runFiles)
    /\ \A i \in DOMAIN runCalls : runCalls[i] = runFiles[i]
    /\ LoadFailed => \E i \in DOMAIN reports : reports[i].kind = "load_error"
    /\ \A i \in DOMAIN runCalls :
         FileFails(runCalls[i]) =>
            \E j \in DOMAIN reports : reports[j] = Report("file_error", runCalls[i].name)

\* a run that loaded the model and analysed two files, one of them failing
C11_Witness ==
    /\ loadAttempts = 1
    /\ Len(runFiles) = 2
    /\ \E i \in DOMAIN runFiles : FileFails(runFiles[i])
    /\ \E i \in DOMAIN runFiles : FileSucceeds(runFiles[i])

ExpectedResults(files) ==
    LET good == SelectSeq(files, FileSucceeds) IN
    [i \in DOMAIN good |->
        [filename |-> good[i].name, result |-> PredictOf(good[i].image).value]]

\* C13 as stated: every file of an analysis is predicted, the results are
\* the successful files in upload order, and latest_results holds them
C13_Original ==
    Analysed =>
        /\ runCalls = runFiles
        /\ runResults = ExpectedResults(runFiles)
        /\ latest_results = runResults

\* C13: a failing file does not end the analysis: every file is handed to
\* predict_image, the results are the successful files in upload order, and
\* latest_results holds them when there is at least one
C13_FailureDoesNotAbortAnalysis ==
    Analysed =>
        /\ runCalls = runFiles
        /\ runResults = ExpectedResults(runFiles)
        /\ runResults # <<>> => latest_results = runResults

\* an analysis whose first file fails and whose second file is predicted
C13_Witness ==
    /\ Len(runFiles) = 2
    /\ FileFails(runFiles[1])
    /\ FileSucceeds(runFiles[2])
    /\ Len(runResults) = 1
    /\ latest_results = runResults

\* C14: the messages about files are one per failing file, in upload order,
\* each naming its file; a file that is predicted gets none
C14_OneErrorPerFailedFile ==
    Analysed =>
        LET bad == SelectSeq(runFiles, FileFails) IN
        FileErrors = [i \in DOMAIN bad |-> Report("file_error", bad[i].name)]

\* an analysis of the failing file uploaded twice
C14_Witness ==
    /\ Len(runFiles) = 2
    /\ runFiles[1] = runFiles[2]
    /\ FileFails(runFiles[1])
    /\ Len(FileErrors) = 2

\* ------------------------------------------------------------------------
\* Properties of the preprocessor on any input, and of the remedy service
\* ------------------------------------------------------------------------
PreprocessReturned == pc = "idle" /\ lastOp = "preprocess"

\* the input holds a picture
HoldsPicture(image) == image.decodable

\* the input is no picture: corrupt or empty content, or no image type
Uninterpretable(image) == image.kind = "other" \/ ~image.decodable

\* C15: for a path, a byte stream and an image object of any mode that hold
\* a picture, what preprocess hands to the transformer is a decoded RGB image
C15_TransformerGetsRGB ==
    (PreprocessReturned /\ preArg.kind \in {"path", "stream", "pil"} /\ HoldsPicture(preArg))
        => /\ preRet.handed.kind = "pil"
           /\ preRet.handed.mode = "RGB"

\* C16 as stated: a path, a raw bytes value and an image object that hold a
\* picture reach the transformer as the decoded picture
C16_Original ==
    (PreprocessReturned /\ preArg.kind \in {"path", "bytes", "pil"} /\ HoldsPicture(preArg))
        => /\ preRet.handed.kind = "pil"
           /\ preRet.handed.px = preArg.px

\* C16: a path, a file-like byte stream and an image object that hold a
\* picture reach the transformer as the decoded picture
C16_AcceptsPathStreamImage ==
    (PreprocessReturned /\ preArg.kind \in {"path", "stream", "pil"} /\ HoldsPicture(preArg))
        => /\ preRet.handed.kind = "pil"
           /\ preRet.handed.px = preArg.px

\* a greyscale picture passed as a byte stream was decoded
C16_Witness ==
    /\ PreprocessReturned
    /\ preArg.kind = "stream" /\ HoldsPicture(preArg) /\ preArg.mode = "L"
    /\ preRet.ok
    /\ preRet.handed = Image("pil", TRUE, "RGB", preArg.px)

C18_RemedyExactlyForListedDiseases ==
    /\ {"Bacterialblight", "Blast", "Brownspot"} \subseteq Range(GetAllDiseases)
    /\ lastOp = "get_remedy" =>
          (remedyRet # NoRemedy <=> remedyArg \in Range(GetAllDiseases))

\* the remedy of Brown Spot was returned
C18_Witness ==
    /\ lastOp = "get_remedy"
    /\ remedyArg = "Brownspot"
    /\ remedyRet.disease_name = "Brown Spot"

\* ------------------------------------------------------------------------
\* Properties of the Auth facade
\* ------------------------------------------------------------------------
\* C19: a session exists only by a login of its user whose password hashed
\* to the hash stored for that user
C19_SessionOnlyAfterAuthentication ==
    logged_in =>
        /\ sessionBy.op = "login"
        /\ sessionBy.username = username
        /\ sessionBy.stored # NoHash
        /\ sessionBy.stored = HashPassword(sessionBy.password)
        /\ users[username] = sessionBy.stored

\* bob stays logged in after a login that was refused
C19_Witness ==
    /\ logged_in /\ username = "bob"
    /\ authOp = "login" /\ ~authRet

\* C20: register returns False on a username that has a row and leaves the
\* table as it is; when it returns True the username had no row and the
\* table gained that one row
C20_RegisterUniqueUsername ==
    [][authOp' = "register" =>
          /\ UserExists(users, authUser') => (~authRet' /\ users' = users)
          /\ authRet' =>
                /\ ~UserExists(users, authUser')
                /\ UserExists(users', authUser')
                /\ \A u \in Usernames \ {authUser'} : users'[u] = users[u]
                /\ GetUserCount(users') = GetUserCount(users) + 1]_vars

\* a registration refused for a username that has a row
C20_Witness ==
    /\ authOp = "register" /\ ~authRet
    /\ UserExists(users, authUser)
    /\ GetUserCount(users) = 2

\* the session the two keys of st.session_state make up
CurrentSession == Session(logged_in, username)

\* C25: a login that returns False leaves the session and the users table as
\* they were
C25_FailedLoginChangesNothing ==
    [][(authOp' = "login" /\ ~authRet') =>
          /\ logged_in' = logged_in
          /\ username' = username
          /\ users' = users]_vars

\* alice stays logged in after bob's password was refused
C25_Witness ==
    /\ logged_in /\ username = "alice"
    /\ authOp = "login" /\ ~authRet
    /\ authUser = "bob" /\ UserExists(users, "bob")

\* C22: the session is logged in exactly when it holds a username, and after
\* logout is_logged_in() is False, get_username() is None and the run that
\* follows takes the login page branch
C22_LogoutEndsSession ==
    /\ IsLoggedIn(CurrentSession) <=> GetUsername(CurrentSession) # NoUser
    /\ authOp = "logout" =>
          /\ ~IsLoggedIn(CurrentSession)
          /\ GetUsername(CurrentSession) = NoUser
          /\ ~AuthGate(CurrentSession)

\* a logout of a session that a login had created
C22_Witness ==
    /\ authOp = "logout"
    /\ sessionBy.op = "login"
    /\ ~logged_in /\ username = NoUser

\* C24: login returns True on the password register returned True for,
\* False on a password with another hash, and False on a username that was
\* never registered
C24_RegisterLoginRoundTrip ==
    authOp = "login" =>
        LET p == registered[authUser] IN
        /\ p = NoPassword => ~authRet
        /\ (p # NoPassword /\ authPass = p) => authRet
        /\ (p # NoPassword /\ HashPassword(authPass) # HashPassword(p)) => ~authRet

\* a login with another password than the registered one, after a logout
C24_Witness ==
    /\ authOp = "login" /\ ~authRet
    /\ registered[authUser] # NoPassword
    /\ authPass # registered[authUser]
    /\ sessionBy.op = "login" /\ ~logged_in

\* ------------------------------------------------------------------------
\* Properties of the login page and the authentication gate
\* ------------------------------------------------------------------------
\* C21: a run that starts logged out shows the login page only, constructs
\* no Predictor and calls predict_image on nothing
C21_AuthenticationGate ==
    [][~logged_in =>
          /\ rendered' = {"login"}
          /\ loadAttempts' = 0
          /\ runCalls' = <<>>
          /\ predictor' = predictor]_vars

\* the login page shown to a session that logged out after the model was loaded
C21_Witness ==
    /\ ~logged_in
    /\ rendered = {"login"}
    /\ predictor.exists

\* the checks of the registration form on its fields
FormChecksPass(f) ==
    /\ f.username # ""
    /\ f.password # <<>>
    /\ Len(f.password) >= 4
    /\ f.password = f.confirm

\* C26: the users table changes only by a registration form that passes the
\* checks, a form that fails one leaves the table as it was, and every stored
\* hash is the hash of a password of at least 4 characters
C26_FormValidatesRegistration ==
    [][/\ users' # users =>
            /\ form'.kind = "register"
            /\ FormChecksPass(form')
            /\ users' = [users EXCEPT ![form'.username] = HashPassword(form'.password)]
       /\ (form'.kind = "register" /\ ~FormChecksPass(form')) => users' = users
       /\ \A u \in Usernames :
            UserExists(users', u) =>
               \E p \in Passwords : Len(p) >= 4 /\ users'[u] = HashPassword(p)]_vars

\* a registration with a password of three characters was refused
C26_Witness ==
    /\ form.kind = "register"
    /\ form.username = "alice"
    /\ Len(form.password) = 3 /\ form.confirm = form.password
    /\ ~UserExists(users, "alice")
    /\ reports = <<Report("form_error", "Password too short")>>

\* ------------------------------------------------------------------------
\* Properties of the support bot
\* ------------------------------------------------------------------------
\* C27: a question that contains 'how to use' in any case and no cure
\* keyword is answered with the how-to-use guide
C27_HowToUseReturnsGuide ==
    (lastOp = "find_best_response"
        /\ Contains(<<"h", "o", "w", " ", "t", "o", " ", "u", "s", "e">>, Lower(botArg))
        /\ ~AnyIn(cure_keywords, Lower(botArg)))
        => botRet = Response("APP_KNOWLEDGE", "how to use")

\* ------------------------------------------------------------------------
\* Properties of concurrent registration
\* ------------------------------------------------------------------------
\* both sessions' calls have returned and were for the same username
BothRegisteredSameName ==
    /\ \A s \in Sessions : regPc[s] = "done"
    /\ regArg[1].username = regArg[2].username

\* C23: when both sessions registered the same new username, at most one
\* call returned True and the table holds one row for the username, the row
\* of the call that returned True
C23_ConcurrentRegisterUnique ==
    BothRegisteredSameName =>
        /\ ~(regRet[1].value /\ regRet[2].value)
        /\ GetUserCount(users) = 1
        /\ \E s \in Sessions :
              /\ regRet[s].value
              /\ users[regArg[s].username] = HashPassword(regArg[s].password)

\* both calls passed user_exists before either INSERT ran: the second INSERT
\* was refused
C23_Witness ==
    /\ BothRegisteredSameName
    /\ \E s, t \in Sessions :
          /\ regRet[s] = Returned(TRUE, "create_user")
          /\ regRet[t] = Returned(FALSE, "create_user")
          /\ regArg[s].password # regArg[t].password

====
